---- MODULE Spec2Model ----
(***************************************************************************)
(* Model of src/data_integration.py: DataIntegrationPipeline.              *)
(*                                                                         *)
(* DataFrames live in a heap of objects (a sequence of tables, a reference *)
(* is an index into it), so that "returns a new collection" and "mutates   *)
(* the caller's collection" are different behaviours of the model.         *)
(*                                                                         *)
(* A cell of a DataFrame is a record [k, p, q, s]:                         *)
(*   k = "num"  : the finite number p/q (q > 0, p and q coprime)           *)
(*   k = "nan"  : NaN, pandas' missing value (isnull() is true)            *)
(*   k = "inf"  : +infinity,   k = "ninf" : -infinity                      *)
(*   k = "str"  : the string s                                             *)
(* Finite numbers are exact rationals: the code computes in IEEE doubles,  *)
(* whose results differ from the exact ones by relative errors of 1e-16,   *)
(* which only matters for a value lying exactly on a rounding tie.         *)
(***************************************************************************)
EXTENDS Integers, Sequences, FiniteSets, TLC

VARIABLES self, heap, pc, frame, validation_results, files, stdout, warnings,
          converted, ret

vars == <<self, heap, pc, frame, validation_results, files, stdout, warnings,
          converted, ret>>

---------------------------------------------------------------------------
(* Floating-point cells                                                    *)

Abs(x) == IF x < 0 THEN -x ELSE x

RECURSIVE GCD(_, _)
GCD(a, b) == IF b = 0 THEN a ELSE GCD(b, a % b)

\* The finite number p/q in lowest terms, q # 0.
Num(p, q) ==
  LET sp == IF q < 0 THEN -p ELSE p
      sq == Abs(q)
      g  == GCD(Abs(sp), sq)
  IN  [k |-> "num", p |-> sp \div g, q |-> sq \div g, s |-> ""]

NaN    == [k |-> "nan",  p |-> 0, q |-> 1, s |-> ""]
PosInf == [k |-> "inf",  p |-> 0, q |-> 1, s |-> ""]
NegInf == [k |-> "ninf", p |-> 0, q |-> 1, s |-> ""]
Str(x) == [k |-> "str",  p |-> 0, q |-> 1, s |-> x]

IsNum(c)  == c.k = "num"
\* pandas isnull(): NaN (and None) are missing; infinities are not.
IsNull(c) == c.k = "nan"

\* -1, 0, 1: the sign of a number or an infinity.
Sign(c) ==
  IF c.k = "inf" THEN 1
  ELSE IF c.k = "ninf" THEN -1
  ELSE IF c.p > 0 THEN 1 ELSE IF c.p < 0 THEN -1 ELSE 0

InfOfSign(sg) == IF sg > 0 THEN PosInf ELSE NegInf

\* IEEE multiplication.
FMul(a, b) ==
  IF IsNull(a) \/ IsNull(b) THEN NaN
  ELSE IF IsNum(a) /\ IsNum(b) THEN Num(a.p * b.p, a.q * b.q)
  ELSE IF Sign(a) * Sign(b) = 0 THEN NaN
  ELSE InfOfSign(Sign(a) * Sign(b))

\* IEEE subtraction.
FSub(a, b) ==
  IF IsNull(a) \/ IsNull(b) THEN NaN
  ELSE IF IsNum(a) /\ IsNum(b) THEN Num(a.p * b.q - b.p * a.q, a.q * b.q)
  ELSE IF IsNum(a) THEN InfOfSign(-Sign(b))
  ELSE IF IsNum(b) THEN a
  ELSE IF a = b THEN NaN ELSE a

\* IEEE division: x/0 is +-inf for x # 0 and NaN for x = 0; nothing is raised.
FDiv(a, b) ==
  IF IsNull(a) \/ IsNull(b) THEN NaN
  ELSE IF IsNum(a) /\ IsNum(b) THEN
         IF b.p # 0 THEN Num(a.p * b.q, a.q * b.p)
         ELSE IF a.p = 0 THEN NaN ELSE InfOfSign(Sign(a))
  ELSE IF IsNum(a) THEN Num(0, 1)
  ELSE IF IsNum(b) THEN InfOfSign(Sign(a) * (IF Sign(b) < 0 THEN -1 ELSE 1))
  ELSE NaN

\* a < b as pandas evaluates it: any comparison with NaN is False.
FLess(a, b) ==
  IF IsNull(a) \/ IsNull(b) THEN FALSE
  ELSE IF IsNum(a) /\ IsNum(b) THEN a.p * b.q < b.p * a.q
  ELSE IF a = b THEN FALSE
  ELSE a.k = "ninf" \/ b.k = "inf"

\* The number of hundredths nearest to p/q, ties to the even one
\* (numpy's round: "rounds to the nearest even value").
HalfEven(whole, rem, q) ==
  IF 2 * rem < q THEN whole
  ELSE IF 2 * rem > q THEN whole + 1
  ELSE IF whole % 2 = 0 THEN whole ELSE whole + 1

Hundredths(p, q) ==
  LET n2 == (p % q) * 100
  IN  HalfEven((p \div q) * 100 + (n2 \div q), n2 % q, q)

\* Faulty variant of Round2: the digits after the second decimal are cut.
Round2_truncating(c) ==
  IF IsNum(c) THEN Num((c.p \div c.q) * 100 + (((c.p % c.q) * 100) \div c.q), 100)
  ELSE c

\* Series.round(2) / numpy.float64.round(2) on one value.
Round2(c) == IF IsNum(c) THEN Num(Hundredths(c.p, c.q), 100) ELSE c

---------------------------------------------------------------------------
(* DataFrames: [columns |-> sequence of names, rows |-> sequence of rows],  *)
(* a row being a function from the column names to cells.                  *)

Range(f) == {f[i] : i \in DOMAIN f}

DF(cols, rws) == [columns |-> cols, rows |-> rws]

\* len(df), df.shape[0]
NRows(df) == Len(df.rows)

\* len(df.columns), df.shape[1]
NCols(df) == Len(df.columns)

SetField(row, col, v) ==
  [c \in (DOMAIN row) \cup {col} |-> IF c = col THEN v ELSE row[c]]

\* df[col]: the column as a Series, one value per row.
Col(df, col) ==
  IF NRows(df) = 0 THEN <<>> ELSE [i \in 1..NRows(df) |-> df.rows[i][col]]

\* df[col] = series: the column is replaced, or added last.
AssignCol(df, col, series) ==
  DF(IF col \in Range(df.columns) THEN df.columns ELSE Append(df.columns, col),
     IF NRows(df) = 0 THEN <<>>
     ELSE [i \in 1..NRows(df) |-> SetField(df.rows[i], col, series[i])])

\* df[col] = value: the same value on every row.
Broadcast(df, value) ==
  IF NRows(df) = 0 THEN <<>> ELSE [i \in 1..NRows(df) |-> value]

\* Series arithmetic, element by element.
SeriesRound2(x) == [i \in DOMAIN x |-> Round2(x[i])]

SeriesSub(x, y) == [i \in DOMAIN x |-> FSub(x[i], y[i])]

SeriesDiv(x, y) == [i \in DOMAIN x |-> FDiv(x[i], y[i])]

SeriesTimes(x, k) == [i \in DOMAIN x |-> FMul(x[i], k)]

\* df[cols]: a new frame with these columns, in this order.
Select(df, cols) ==
  DF(cols,
     IF NRows(df) = 0 THEN <<>>
     ELSE [i \in 1..NRows(df) |-> [c \in Range(cols) |-> df.rows[i][c]]])

RECURSIVE SumTo(_, _)
SumTo(f, n) == IF n = 0 THEN 0 ELSE f[n] + SumTo(f, n - 1)

---------------------------------------------------------------------------
(* Heap of DataFrame objects                                               *)

\* Faulty variant of df_copy: no copy, the same object under a second name.
df_copy_alias(h, df) == [heap |-> h, ref |-> df]

\* df.copy(): a new object with the same contents.
df_copy(h, df) == [heap |-> Append(h, h[df]), ref |-> Len(h) + 1]

\* obj[col] = ... : assignment of a column, in place, on the object ref.
SetItem(h, ref, col, series) == [h EXCEPT ![ref] = AssignCol(@, col, series)]

---------------------------------------------------------------------------
(* Configuration: DataIntegrationPipeline.__init__                         *)

currency_rates ==
  [Germany |-> Num(107, 100), USA |-> Num(1, 1), India |-> Num(12, 1000),
   UK |-> Num(121, 100), Brazil |-> Num(20, 100)]

Config ==
  [currency_rates |-> currency_rates, target_currency |-> "USD",
   target_unit |-> "millions"]

---------------------------------------------------------------------------
(* The methods                                                             *)

\* Faulty variant of convert_currency: self.currency_rates[country], which
\* raises KeyError for a country the table does not hold.
convert_currency_strict(s, amount, country) ==
  IF country.k = "str" /\ country.s \in DOMAIN s.currency_rates
  THEN FMul(amount, s.currency_rates[country.s])
  ELSE [k |-> "raise", p |-> 0, q |-> 1, s |-> "KeyError"]

\* rate = self.currency_rates.get(country, 1.0); return amount * rate
convert_currency(s, amount, country) ==
  LET rate == IF country.k = "str" /\ country.s \in DOMAIN s.currency_rates
              THEN s.currency_rates[country.s]
              ELSE Num(1, 1)
  IN  FMul(amount, rate)

final_columns ==
  <<"company_name", "industry", "country", "fiscal_year",
    "revenue", "ebitda", "ebitda_margin", "valuation_multiple">>

\* normalized.apply(lambda row: self.convert_currency(row[col], row['country']), axis=1)
apply_convert(s, df, col) ==
  IF NRows(df) = 0 THEN <<>>
  ELSE [i \in 1..NRows(df) |->
          convert_currency(s, df.rows[i][col], df.rows[i]["country"])]

\* ((normalized['ebitda'] / normalized['revenue']) * 100).round(2), unguarded.
ebitda_margin(df) ==
  SeriesRound2(SeriesTimes(SeriesDiv(Col(df, "ebitda"), Col(df, "revenue")),
                           Num(100, 1)))

\* normalize_private_data(df): the heap afterwards and the returned reference.
normalize_private_data(s, h, df) ==
  LET c  == df_copy(h, df)
      normalized == c.ref
      h1 == SetItem(c.heap, normalized, "revenue",
                    apply_convert(s, c.heap[normalized], "revenue_local"))
      h2 == SetItem(h1, normalized, "ebitda",
                    apply_convert(s, h1[normalized], "ebitda_local"))
      h3 == SetItem(h2, normalized, "revenue",
                    SeriesRound2(Col(h2[normalized], "revenue")))
      h4 == SetItem(h3, normalized, "ebitda",
                    SeriesRound2(Col(h3[normalized], "ebitda")))
      h5 == SetItem(h4, normalized, "valuation_multiple",
                    SeriesRound2(Col(h4[normalized], "valuation_multiple")))
      h6 == SetItem(h5, normalized, "ebitda_margin", ebitda_margin(h5[normalized]))
      h7 == Append(h6, Select(h6[normalized], final_columns))
  IN  [heap |-> h7, ref |-> Len(h7)]

\* normalize_benchmark_data(df): rounds the four metrics on a copy, returns it.
normalize_benchmark_data(h, df) ==
  LET c  == df_copy(h, df)
      normalized == c.ref
      h1 == SetItem(c.heap, normalized, "average_margin",
                    SeriesRound2(Col(c.heap[normalized], "average_margin")))
      h2 == SetItem(h1, normalized, "sector_growth_rate",
                    SeriesRound2(Col(h1[normalized], "sector_growth_rate")))
      h3 == SetItem(h2, normalized, "average_valuation_multiple",
                    SeriesRound2(Col(h2[normalized], "average_valuation_multiple")))
      h4 == SetItem(h3, normalized, "market_size_billions",
                    SeriesRound2(Col(h3[normalized], "market_size_billions")))
  IN  [heap |-> h4, ref |-> normalized]

\* The columns the right side adds to a merge on key.
RightColumns(right, key) == SelectSeq(right.columns, LAMBDA c : c # key)

\* One left row joined with one right row, or with NaN when there is none.
JoinRow(l, rcols, r) ==
  [c \in (DOMAIN l) \cup Range(rcols) |-> IF c \in DOMAIN l THEN l[c] ELSE r[c]]

JoinNull(l, rcols) ==
  [c \in (DOMAIN l) \cup Range(rcols) |-> IF c \in DOMAIN l THEN l[c] ELSE NaN]

\* Faulty variant of FanOut: the first match only.
FanOut_first_match(l, right, key) ==
  LET matches == SelectSeq(right.rows, LAMBDA r : r[key] = l[key])
      rcols   == RightColumns(right, key)
  IN  IF Len(matches) = 0 THEN <<JoinNull(l, rcols)>>
      ELSE <<JoinRow(l, rcols, matches[1])>>

\* The output rows of one left row: one per right row with the same key, in
\* the right side's order, or a single NaN-filled row when none matches.
FanOut(l, right, key) ==
  LET matches == SelectSeq(right.rows, LAMBDA r : r[key] = l[key])
      rcols   == RightColumns(right, key)
  IN  IF Len(matches) = 0 THEN <<JoinNull(l, rcols)>>
      ELSE [j \in 1..Len(matches) |-> JoinRow(l, rcols, matches[j])]

RECURSIVE MergeRows(_, _, _, _)
MergeRows(left, right, key, i) ==
  IF i > NRows(left) THEN <<>>
  ELSE FanOut(left.rows[i], right, key) \o MergeRows(left, right, key, i + 1)

\* pd.merge(left, right, on=key, how='left'): a new frame, left order kept.
merge_left(left, right, key) ==
  DF(left.columns \o RightColumns(right, key), MergeRows(left, right, key, 1))

\* Faulty variant of vs_sector_avg: benchmark minus private.
vs_sector_avg_reversed(private, benchmark) ==
  SeriesRound2(SeriesSub(benchmark, private))

\* (integrated[private] - integrated[benchmark]).round(2): a delta column.
vs_sector_avg(private, benchmark) == SeriesRound2(SeriesSub(private, benchmark))

\* integrate_data(private_df, benchmark_df); now is datetime.now() formatted.
integrate_data(s, h, private_df, benchmark_df, now) ==
  LET h0 == Append(h, merge_left(h[private_df], h[benchmark_df], "industry"))
      integrated == Len(h0)
      h1 == SetItem(h0, integrated, "data_source",
              Broadcast(h0[integrated], Str("Integrated_Private_and_Benchmark")))
      h2 == SetItem(h1, integrated, "currency",
              Broadcast(h1[integrated], Str(s.target_currency)))
      h3 == SetItem(h2, integrated, "units",
              Broadcast(h2[integrated], Str(s.target_unit)))
      h4 == SetItem(h3, integrated, "last_updated", Broadcast(h3[integrated], Str(now)))
      h5 == SetItem(h4, integrated, "valuation_vs_sector_avg",
              vs_sector_avg(Col(h4[integrated], "valuation_multiple"),
                            Col(h4[integrated], "average_valuation_multiple")))
      h6 == SetItem(h5, integrated, "margin_vs_sector_avg",
              vs_sector_avg(Col(h5[integrated], "ebitda_margin"),
                            Col(h5[integrated], "average_margin")))
  IN  [heap |-> h6, ref |-> integrated]

\* df.isnull().sum(): per column, the number of missing cells.
missing_values(df) ==
  [c \in Range(df.columns) |->
     Cardinality({i \in 1..NRows(df) : IsNull(df.rows[i][c])})]

\* df.isnull().sum().sum()
missing_cells(df) ==
  LET m == missing_values(df)
  IN  SumTo([i \in 1..NCols(df) |-> m[df.columns[i]]], NCols(df))

\* Faulty variant of duplicate_companies: duplicated(keep=False), every row
\* whose name occurs more than once.
duplicate_companies_keep_false(df) ==
  Cardinality({i \in 1..NRows(df) :
    \E j \in (1..NRows(df)) \ {i} :
      df.rows[j]["company_name"] = df.rows[i]["company_name"]})

\* df['company_name'].duplicated().sum(): rows whose name occurred earlier.
duplicate_companies(df) ==
  Cardinality({i \in 1..NRows(df) :
    \E j \in 1..(i - 1) : df.rows[j]["company_name"] = df.rows[i]["company_name"]})

\* Faulty variant of total_cells: the rows only.
total_cells_rows_only(df) == NRows(df)

\* df.shape[0] * df.shape[1]
total_cells(df) == NRows(df) * NCols(df)

\* (((total_cells - missing_cells) / total_cells) * 100).round(2): a numpy
\* scalar division, total_cells being whatever the shape gives.
data_quality_score(df) ==
  Round2(FMul(FDiv(Num(total_cells(df) - missing_cells(df), 1),
                   Num(total_cells(df), 1)),
              Num(100, 1)))

\* (df[col] < 0).sum()
negative_count(df, col) ==
  Cardinality({i \in 1..NRows(df) : FLess(df.rows[i][col], Num(0, 1))})

\* validate_data(df): the report. The frame is only read.
validate_data(df) ==
  [total_records       |-> NRows(df),
   missing_values      |-> missing_values(df),
   duplicate_companies |-> duplicate_companies(df),
   negative_values     |->
     [revenue |-> negative_count(df, "revenue"),
      ebitda  |-> negative_count(df, "ebitda")],
   data_quality_score  |-> data_quality_score(df)]

\* numpy warns (RuntimeWarning, nothing raised) when the scalar division of
\* the score divides by zero.
validate_warnings(df) ==
  IF total_cells(df) = 0
  THEN {"RuntimeWarning: invalid value encountered in scalar divide"}
  ELSE {}

---------------------------------------------------------------------------
(* The data source: simulate_private_market_data and                       *)
(* simulate_industry_benchmark_data. numpy's seeded generator is not      *)
(* modelled: the draws are any values of the ranges the code draws from.   *)

\* Companies per run (the code's default is 10).
num_companies == 2

\* The first three of the code's ten industries.
industries == <<"Technology", "Healthcare", "Financial Services">>

\* industries[:n]
Prefix(s, n) == SubSeq(s, 1, IF n < Len(s) THEN n ELSE Len(s))

\* f'Company_{chr(65+i)}', i = 0, 1, ...
CompanyName(i) ==
  <<"Company_A", "Company_B", "Company_C", "Company_D", "Company_E", "Company_F">>[i]

\* Draws of (revenue_local in [50, 500], ebitda_local in [10, 100],
\* valuation_multiple in [6, 16], country, currency label).
PrivateDraws ==
  {[revenue_local |-> Num(100, 1), ebitda_local |-> Num(20, 1),
    valuation_multiple |-> Num(10, 1), country |-> "Germany", currency |-> "EUR"],
   [revenue_local |-> Num(250505, 1000), ebitda_local |-> Num(99995, 1000),
    valuation_multiple |-> Num(12345, 1000), country |-> "India", currency |-> "USD"]}

RawPrivateColumns ==
  <<"company_name", "industry", "revenue_local", "ebitda_local",
    "valuation_multiple", "country", "fiscal_year", "currency">>

RawPrivateRow(name, industry, d) ==
  [company_name |-> Str(name), industry |-> Str(industry),
   revenue_local |-> d.revenue_local, ebitda_local |-> d.ebitda_local,
   valuation_multiple |-> d.valuation_multiple, country |-> Str(d.country),
   fiscal_year |-> Num(2024, 1), currency |-> Str(d.currency)]

\* The frame simulate_private_market_data(n) returns when the generator
\* draws the industries ind[i] and the values d[i].
simulate_private_market_data(n, ind, d) ==
  DF(RawPrivateColumns,
     [i \in 1..n |-> RawPrivateRow(CompanyName(i), ind[i], d[i])])

\* Draws of (average_margin in [15, 40], sector_growth_rate in [2, 12],
\* average_valuation_multiple in [7, 14], market_size_billions in [10, 500]).
BenchmarkDraws ==
  {[average_margin |-> Num(18, 1), sector_growth_rate |-> Num(5, 1),
    average_valuation_multiple |-> Num(9, 1), market_size_billions |-> Num(100, 1)],
   [average_margin |-> Num(27455, 1000), sector_growth_rate |-> Num(7125, 1000),
    average_valuation_multiple |-> Num(10005, 1000),
    market_size_billions |-> Num(2505, 10)]}

BenchmarkColumns ==
  <<"industry", "average_margin", "sector_growth_rate",
    "average_valuation_multiple", "market_size_billions">>

BenchmarkRow(industry, d) ==
  [industry |-> Str(industry), average_margin |-> d.average_margin,
   sector_growth_rate |-> d.sector_growth_rate,
   average_valuation_multiple |-> d.average_valuation_multiple,
   market_size_billions |-> d.market_size_billions]

\* The frame simulate_industry_benchmark_data() returns when the generator
\* draws the values d[i]: one row per industry, in the list's order.
simulate_industry_benchmark_data(d) ==
  DF(BenchmarkColumns,
     [i \in 1..Len(industries) |-> BenchmarkRow(industries[i], d[i])])

\* datetime.now().strftime(...): the clock's reading at integration time.
Timestamps == {"2024-05-01 10:00:00", "2024-05-01 10:00:01"}

---------------------------------------------------------------------------
(* run_pipeline                                                            *)

NoFrame ==
  [private_data_raw |-> 0, benchmark_data_raw |-> 0, private_normalized |-> 0,
   benchmark_normalized |-> 0, integrated_data |-> 0]

Init ==
  /\ self = Config
  /\ heap = <<>>
  /\ pc = "start"
  /\ frame = NoFrame
  /\ validation_results = <<>>
  /\ files = {}
  /\ stdout = <<>>
  /\ warnings = {}
  /\ converted = <<>>
  /\ ret = <<>>

\* to_csv(path): the file holds the frame's contents at the time of the call.
to_csv(fs, path, df) == {f \in fs : f.path # path} \cup {[path |-> path, content |-> df]}

\* Step 1: private_data_raw, benchmark_data_raw = the two simulations.
RunCollect ==
  /\ pc = "start"
  /\ \E ind \in [1..num_companies -> Range(Prefix(industries, num_companies))],
        d \in [1..num_companies -> PrivateDraws],
        bd \in [1..Len(industries) -> BenchmarkDraws] :
         /\ heap' = heap \o <<simulate_private_market_data(num_companies, ind, d),
                              simulate_industry_benchmark_data(bd)>>
         /\ frame' = [frame EXCEPT !.private_data_raw = Len(heap) + 1,
                                   !.benchmark_data_raw = Len(heap) + 2]
  /\ stdout' = Append(stdout, "[1/6] Collecting data...")
  /\ pc' = "collected"
  /\ UNCHANGED <<self, validation_results, files, warnings, converted, ret>>

\* The two raw snapshots written to input_dir.
RunSaveRaw ==
  /\ pc = "collected"
  /\ files' = to_csv(to_csv(files, "input_data/private_market_data_example.csv",
                            heap[frame.private_data_raw]),
                     "input_data/industry_benchmark_data_example.csv",
                     heap[frame.benchmark_data_raw])
  /\ stdout' = Append(stdout, "Saved raw input files")
  /\ pc' = "raw_saved"
  /\ UNCHANGED <<self, heap, frame, validation_results, warnings, converted, ret>>

\* Step 2: private_normalized = self.normalize_private_data(private_data_raw)
RunNormalizePrivate ==
  /\ pc = "raw_saved"
  /\ LET r == normalize_private_data(self, heap, frame.private_data_raw)
     IN  /\ heap' = r.heap
         /\ frame' = [frame EXCEPT !.private_normalized = r.ref]
  /\ stdout' = Append(stdout, "[2/6] Normalizing private market data...")
  /\ pc' = "private_normalized"
  /\ UNCHANGED <<self, validation_results, files, warnings, converted, ret>>

\* Step 3: benchmark_normalized = self.normalize_benchmark_data(benchmark_data_raw)
RunNormalizeBenchmark ==
  /\ pc = "private_normalized"
  /\ LET r == normalize_benchmark_data(heap, frame.benchmark_data_raw)
     IN  /\ heap' = r.heap
         /\ frame' = [frame EXCEPT !.benchmark_normalized = r.ref]
  /\ stdout' = Append(stdout, "[3/6] Normalizing industry benchmark data...")
  /\ pc' = "benchmark_normalized"
  /\ UNCHANGED <<self, validation_results, files, warnings, converted, ret>>

\* Step 4: integrated_data = self.integrate_data(private_normalized, benchmark_normalized)
RunIntegrate ==
  /\ pc = "benchmark_normalized"
  /\ \E now \in Timestamps :
       LET r == integrate_data(self, heap, frame.private_normalized,
                               frame.benchmark_normalized, now)
       IN  /\ heap' = r.heap
           /\ frame' = [frame EXCEPT !.integrated_data = r.ref]
  /\ stdout' = Append(stdout, "[4/6] Integrating datasets...")
  /\ pc' = "integrated"
  /\ UNCHANGED <<self, validation_results, files, warnings, converted, ret>>

\* Step 5: validation_results = self.validate_data(integrated_data)
RunValidate ==
  /\ pc = "integrated"
  /\ validation_results' = <<validate_data(heap[frame.integrated_data])>>
  /\ warnings' = warnings \cup validate_warnings(heap[frame.integrated_data])
  /\ stdout' = Append(stdout, "[5/6] Validating data quality...")
  /\ pc' = "validated"
  /\ UNCHANGED <<self, heap, frame, files, converted, ret>>

\* Faulty variant of RunSaveOutput: the table is written before validation.
RunSaveOutput_before_validation ==
  /\ pc = "integrated"
  /\ files' = to_csv(files, "output/final_integrated_valuation_data.csv",
                     heap[frame.integrated_data])
  /\ stdout' = Append(stdout, "[6/6] Saving integrated dataset...")
  /\ pc' = "integrated"
  /\ UNCHANGED <<self, heap, frame, validation_results, warnings, converted, ret>>

\* Step 6: integrated_data.to_csv(output_file). Nothing else is written.
RunSaveOutput ==
  /\ pc = "validated"
  /\ files' = to_csv(files, "output/final_integrated_valuation_data.csv",
                     heap[frame.integrated_data])
  /\ stdout' = Append(stdout, "[6/6] Saving integrated dataset...")
  /\ pc' = "saved"
  /\ UNCHANGED <<self, heap, frame, validation_results, warnings, converted, ret>>

\* return integrated_data, validation_results
RunReturn ==
  /\ pc = "saved"
  /\ ret' = <<[integrated_data |-> frame.integrated_data,
               validation_results |-> validation_results[1]]>>
  /\ stdout' = Append(stdout, "Pipeline completed successfully!")
  /\ pc' = "done"
  /\ UNCHANGED <<self, heap, frame, validation_results, files, warnings, converted>>

Next ==
  \/ RunCollect
  \/ RunSaveRaw
  \/ RunNormalizePrivate
  \/ RunNormalizeBenchmark
  \/ RunIntegrate
  \/ RunValidate
  \/ RunSaveOutput
  \/ RunReturn

Spec == Init /\ [][Next]_vars

---------------------------------------------------------------------------
(* The methods called on their own, on any frames of the right schema.     *)

InitApi(h, f) ==
  /\ self = Config
  /\ heap = h
  /\ pc = "api"
  /\ frame = f
  /\ validation_results = <<>>
  /\ files = {}
  /\ stdout = <<>>
  /\ warnings = {}
  /\ converted = <<>>
  /\ ret = <<>>

\* convert_currency(amount, country) on any amount and any country.
Amounts ==
  {Num(0, 1), Num(1, 1), Num(20, 1), Num(100, 1), Num(500, 1), Num(-5, 1),
   Num(2, 5), Num(1, 3), Num(25, 2), Num(9995, 100), Num(501, 2)}

CountryArgs ==
  {Str("Germany"), Str("USA"), Str("India"), Str("UK"), Str("Brazil"),
   Str("France"), Str("Japan"), Str("germany"), Str(""), NaN}

InitConvert == InitApi(<<>>, NoFrame)

CallConvertCurrency ==
  /\ pc = "api"
  /\ \E amount \in Amounts, country \in CountryArgs :
       converted' = <<[amount |-> amount, country |-> country,
                       result |-> convert_currency(self, amount, country)]>>
  /\ UNCHANGED <<self, heap, pc, frame, validation_results, files, stdout,
                 warnings, ret>>

NextConvert == CallConvertCurrency

SpecConvert == InitConvert /\ [][NextConvert]_vars

\* normalize_private_data(df) on raw frames of one row at least (on a frame
\* with no rows DataFrame.apply(axis=1) returns a frame, not a column).
MaxRawRows == 2

RawDraws ==
  {[revenue_local |-> r, ebitda_local |-> e, valuation_multiple |-> Num(12345, 1000),
    country |-> c, currency |-> "EUR"] :
     r \in {Num(0, 1), Num(100, 1), Num(2, 5), Num(3333, 100)},
     e \in {Num(0, 1), Num(20, 1), Num(-5, 1)},
     c \in {"Germany", "India", "Atlantis"}}

\* The raw frame of n rows with the draws d[1], ..., d[n].
RawPrivateFrame(n, d) ==
  DF(RawPrivateColumns,
     [i \in 1..n |-> RawPrivateRow(CompanyName(i), "Technology", d[i])])

InitNormalize ==
  \E n \in 1..MaxRawRows :
    \E d \in [1..n -> RawDraws] :
      InitApi(<<RawPrivateFrame(n, d)>>, [NoFrame EXCEPT !.private_data_raw = 1])

CallNormalizePrivate ==
  /\ pc = "api"
  /\ frame.private_data_raw # 0
  /\ frame.private_normalized = 0
  /\ LET r == normalize_private_data(self, heap, frame.private_data_raw)
     IN  /\ heap' = r.heap
         /\ frame' = [frame EXCEPT !.private_normalized = r.ref]
  /\ UNCHANGED <<self, pc, validation_results, files, stdout, warnings,
                 converted, ret>>

NextNormalize == CallNormalizePrivate

SpecNormalize == InitNormalize /\ [][NextNormalize]_vars

\* integrate_data(private_df, benchmark_df) on normalized frames: industries
\* with one, several or no benchmark row, margins that normalization can
\* produce (a number, NaN from 0/0, inf from x/0), company names that differ.
MaxPrivate == 2

MaxBenchmark == 2

NormalizedRow(name, industry, margin) ==
  [company_name |-> Str(name), industry |-> Str(industry),
   country |-> Str("Germany"), fiscal_year |-> Num(2024, 1),
   revenue |-> Num(107, 1), ebitda |-> Num(214, 10), ebitda_margin |-> margin,
   valuation_multiple |-> Num(1012, 100)]

NormalizedDraws ==
  {[industry |-> ind, ebitda_margin |-> m] :
     ind \in {"Technology", "Healthcare", "Energy"},
     m \in {Num(20, 1), NaN, PosInf}}

\* The normalized private frame of n rows with the draws d[1], ..., d[n].
NormalizedPrivateFrame(n, d) ==
  DF(final_columns,
     IF n = 0 THEN <<>>
     ELSE [i \in 1..n |->
             NormalizedRow(CompanyName(i), d[i].industry, d[i].ebitda_margin)])

NormalizedBenchmarkDraws ==
  {[industry |-> ind, average_margin |-> v[1], sector_growth_rate |-> v[2],
    average_valuation_multiple |-> v[3], market_size_billions |-> v[4]] :
     ind \in {"Technology", "Healthcare"},
     v \in {<<Num(18, 1), Num(5, 1), Num(9, 1), Num(100, 1)>>,
            <<Num(2746, 100), Num(712, 100), Num(1137, 100), Num(2505, 10)>>}}

\* The normalized benchmark frame of n rows with the draws d[1], ..., d[n].
NormalizedBenchmarkFrame(n, d) ==
  DF(BenchmarkColumns,
     IF n = 0 THEN <<>> ELSE [i \in 1..n |-> BenchmarkRow(d[i].industry, d[i])])

InitIntegrate ==
  \E n \in 0..MaxPrivate, m \in 0..MaxBenchmark :
    \E p \in [1..n -> NormalizedDraws], b \in [1..m -> NormalizedBenchmarkDraws] :
      InitApi(<<NormalizedPrivateFrame(n, p), NormalizedBenchmarkFrame(m, b)>>,
              [NoFrame EXCEPT !.private_normalized = 1,
                              !.benchmark_normalized = 2])

CallIntegrate ==
  /\ pc = "api"
  /\ frame.private_normalized # 0
  /\ frame.benchmark_normalized # 0
  /\ frame.integrated_data = 0
  /\ \E now \in Timestamps :
       LET r == integrate_data(self, heap, frame.private_normalized,
                               frame.benchmark_normalized, now)
       IN  /\ heap' = r.heap
           /\ frame' = [frame EXCEPT !.integrated_data = r.ref]
  /\ UNCHANGED <<self, pc, validation_results, files, stdout, warnings,
                 converted, ret>>

NextIntegrate == CallIntegrate

SpecIntegrate == InitIntegrate /\ [][NextIntegrate]_vars

\* validate_data(df) on integrated frames: rows with a benchmark match,
\* without one, with negative amounts, and rows of missing cells only.
MaxRows == 4

IntegratedColumns ==
  final_columns \o RightColumns(DF(BenchmarkColumns, <<>>), "industry") \o
  <<"data_source", "currency", "units", "last_updated",
    "valuation_vs_sector_avg", "margin_vs_sector_avg">>

BenchmarkSide ==
  {"average_margin", "sector_growth_rate", "average_valuation_multiple",
   "market_size_billions", "valuation_vs_sector_avg", "margin_vs_sector_avg"}

IntegratedRow(name, kind) ==
  [c \in Range(IntegratedColumns) |->
     IF kind = "missing" THEN NaN
     ELSE IF c = "company_name" THEN Str(name)
     ELSE IF c \in {"industry", "country", "data_source", "currency", "units",
                    "last_updated"} THEN Str(c)
     ELSE IF kind = "unmatched" /\ c \in BenchmarkSide THEN NaN
     ELSE IF kind = "negative" /\ c \in {"revenue", "ebitda"} THEN Num(-5, 1)
     ELSE Num(20, 1)]

IntegratedRows ==
  {IntegratedRow(n, k) : n \in {"Company_A", "Company_B"},
                         k \in {"matched", "unmatched", "negative"}}
  \cup {IntegratedRow("", "missing")}

InitValidate ==
  \E n \in 0..MaxRows :
    \E rws \in [1..n -> IntegratedRows] :
      InitApi(<<DF(IntegratedColumns, IF n = 0 THEN <<>> ELSE rws)>>,
              [NoFrame EXCEPT !.integrated_data = 1])

CallValidate ==
  /\ pc = "api"
  /\ frame.integrated_data # 0
  /\ validation_results = <<>>
  /\ validation_results' = <<validate_data(heap[frame.integrated_data])>>
  /\ warnings' = warnings \cup validate_warnings(heap[frame.integrated_data])
  /\ UNCHANGED <<self, heap, pc, frame, files, stdout, converted, ret>>

NextValidate == CallValidate

SpecValidate == InitValidate /\ [][NextValidate]_vars

---------------------------------------------------------------------------
(* Properties                                                              *)

\* A number with two decimals at most, and its value in hundredths.
IsCents(c) == IsNum(c) /\ 100 % c.q = 0

CentsOf(c) == c.p * (100 \div c.q)

\* r has two decimals and lies within 0.005 of xp/xq (xq > 0).
Near2(r, xp, xq) == IsCents(r) /\ 2 * Abs(CentsOf(r) * xq - 100 * xp) <= xq

\* The rate the table gives a country, 1.0 for a country it does not hold.
MappedCountries == {"Germany", "USA", "India", "UK", "Brazil"}

IsMapped(country) == country.k = "str" /\ country.s \in MappedCountries

RateOf(country) ==
  IF IsMapped(country) THEN self.currency_rates[country.s] ELSE Num(1, 1)

RawIn == heap[frame.private_data_raw]

NormalizedOut == heap[frame.private_normalized]

PrivateIn == heap[frame.private_normalized]

BenchmarkIn == heap[frame.benchmark_normalized]

IntegratedOut == heap[frame.integrated_data]

Report == validation_results[1]

----
\* C4: convert_currency never fails: for a country outside the rate table
\* it returns the amount unchanged, for a country of the table the amount
\* times that country's rate.
C4_ConvertNeverFails ==
  converted # <<>> =>
    LET c == converted[1]
    IN  /\ IsNum(c.result)
        /\ IsMapped(c.country) =>
             LET rate == self.currency_rates[c.country.s]
             IN  c.result.p * (c.amount.q * rate.q) = c.amount.p * rate.p * c.result.q
        /\ ~IsMapped(c.country) => c.result = c.amount

C4_Witness ==
  /\ converted # <<>>
  /\ converted[1].country = Str("France")
  /\ converted[1].amount = Num(100, 1)
  /\ converted[1].result = Num(100, 1)

----
\* C3: normalize_private_data gives every record revenue = revenue_local
\* times the rate of its country rounded to 2 decimals, ebitda likewise, and
\* ebitda_margin = rounded ebitda / rounded revenue * 100 rounded to 2
\* decimals; (100, 20, Germany) normalizes to 107.00, 21.40 and 20.00.
C3_NormalizePrivate ==
  (pc = "api" /\ frame.private_normalized # 0) =>
    /\ NRows(NormalizedOut) = NRows(RawIn)
    /\ NormalizedOut.columns = final_columns
    /\ \A i \in 1..NRows(RawIn) :
         LET r    == RawIn.rows[i]
             o    == NormalizedOut.rows[i]
             rate == RateOf(r["country"])
         IN  /\ Near2(o["revenue"], r["revenue_local"].p * rate.p,
                      r["revenue_local"].q * rate.q)
             /\ Near2(o["ebitda"], r["ebitda_local"].p * rate.p,
                      r["ebitda_local"].q * rate.q)
             /\ o["revenue"].p > 0 =>
                  Near2(o["ebitda_margin"], o["ebitda"].p * o["revenue"].q * 100,
                        o["ebitda"].q * o["revenue"].p)
             /\ ( /\ r["revenue_local"] = Num(100, 1)
                  /\ r["ebitda_local"] = Num(20, 1)
                  /\ r["country"] = Str("Germany") ) =>
                  /\ o["revenue"] = Num(10700, 100)
                  /\ o["ebitda"] = Num(2140, 100)
                  /\ o["ebitda_margin"] = Num(2000, 100)

C3_Witness ==
  /\ pc = "api"
  /\ frame.private_normalized # 0
  /\ NRows(RawIn) = 2
  /\ RawIn.rows[1]["revenue_local"] = Num(100, 1)
  /\ RawIn.rows[1]["ebitda_local"] = Num(20, 1)
  /\ RawIn.rows[1]["country"] = Str("Germany")
  /\ NormalizedOut.rows[1]["revenue"] = Num(107, 1)
  /\ NormalizedOut.rows[1]["ebitda_margin"] = Num(20, 1)
  /\ RawIn.rows[2]["revenue_local"] = Num(2, 5)
  /\ RawIn.rows[2]["country"] = Str("Germany")
  /\ NormalizedOut.rows[2]["revenue"] = Num(43, 100)

----
\* C5: when a record's converted and rounded revenue is 0, normalization
\* completes for the whole batch and gives that record's ebitda_margin one
\* substitute, a null, the same for every such record whatever its ebitda;
\* every other record gets its normal margin.
C5_ZeroRevenueSubstitute ==
  (pc = "api" /\ frame.private_normalized # 0) =>
    /\ NRows(NormalizedOut) = NRows(RawIn)
    /\ \A i \in 1..NRows(NormalizedOut) :
         LET o == NormalizedOut.rows[i]
         IN  IF o["revenue"].p = 0
             THEN /\ IsNull(o["ebitda_margin"])
                  /\ \A j \in 1..NRows(NormalizedOut) :
                       NormalizedOut.rows[j]["revenue"].p = 0 =>
                         NormalizedOut.rows[j]["ebitda_margin"] = o["ebitda_margin"]
             ELSE Near2(o["ebitda_margin"], o["ebitda"].p * o["revenue"].q * 100,
                        o["ebitda"].q * o["revenue"].p)

----
\* C1: integrate_data is a left join on industry with fan-out: a private
\* record with m benchmark records of its industry yields exactly
\* max(1, m) output rows, one per match; so the output has len(P) rows at
\* least, and exactly len(P) when no industry has two matches.
MatchesOf(p) ==
  {j \in 1..NRows(BenchmarkIn) : BenchmarkIn.rows[j]["industry"] = p["industry"]}

FanOf(p) ==
  IF MatchesOf(p) = {} THEN 1 ELSE Cardinality(MatchesOf(p))

\* The output row carries the private record p.
Carries(row, p) == \A c \in DOMAIN p : row[c] = p[c]

C1_LeftJoinFanOut ==
  (pc = "api" /\ frame.integrated_data # 0) =>
    LET n == NRows(PrivateIn)
    IN  /\ NRows(IntegratedOut) =
             SumTo([i \in 1..n |-> FanOf(PrivateIn.rows[i])], n)
        /\ NRows(IntegratedOut) >= n
        /\ (\A i \in 1..n : Cardinality(MatchesOf(PrivateIn.rows[i])) <= 1)
             => NRows(IntegratedOut) = n
        /\ \A i \in 1..n :
             LET p == PrivateIn.rows[i]
             IN  /\ Cardinality({k \in 1..NRows(IntegratedOut) :
                                   Carries(IntegratedOut.rows[k], p)}) = FanOf(p)
                 /\ \A j \in MatchesOf(p) :
                      \E k \in 1..NRows(IntegratedOut) :
                        /\ Carries(IntegratedOut.rows[k], p)
                        /\ Carries(IntegratedOut.rows[k], BenchmarkIn.rows[j])

C1_Witness ==
  /\ pc = "api"
  /\ frame.integrated_data # 0
  /\ NRows(PrivateIn) = 2
  /\ Cardinality(MatchesOf(PrivateIn.rows[1])) = 2
  /\ MatchesOf(PrivateIn.rows[2]) = {}
  /\ NRows(IntegratedOut) = 3
  /\ IntegratedOut.rows[1]["average_margin"] # IntegratedOut.rows[2]["average_margin"]

----
\* C2: on a row with a benchmark match, valuation_vs_sector_avg is
\* valuation_multiple minus average_valuation_multiple and
\* margin_vs_sector_avg is ebitda_margin minus average_margin, with two
\* decimals (null when an operand is null, infinite when the private value
\* is); on a row without a match the
\* four benchmark fields and both deltas are null, and the row is there.
DeltaIs(d, a, b) ==
  IF IsNum(a) /\ IsNum(b)
  THEN IsCents(d) /\ d.p * (a.q * b.q) = (a.p * b.q - b.p * a.q) * d.q
  ELSE IF IsNull(a) \/ IsNull(b) THEN IsNull(d)
  ELSE IsNum(b) /\ d = a

C2_Deltas ==
  (pc = "api" /\ frame.integrated_data # 0) =>
    /\ \A k \in 1..NRows(IntegratedOut) :
         LET row == IntegratedOut.rows[k]
         IN  IF MatchesOf(row) # {}
             THEN /\ DeltaIs(row["valuation_vs_sector_avg"],
                             row["valuation_multiple"],
                             row["average_valuation_multiple"])
                  /\ DeltaIs(row["margin_vs_sector_avg"],
                             row["ebitda_margin"], row["average_margin"])
             ELSE \A c \in BenchmarkSide : IsNull(row[c])
    /\ \A i \in 1..NRows(PrivateIn) :
         \E k \in 1..NRows(IntegratedOut) :
           Carries(IntegratedOut.rows[k], PrivateIn.rows[i])

C2_Witness ==
  /\ pc = "api"
  /\ frame.integrated_data # 0
  /\ NRows(IntegratedOut) = 2
  /\ MatchesOf(IntegratedOut.rows[1]) # {}
  /\ IntegratedOut.rows[1]["valuation_vs_sector_avg"] = Num(-125, 100)
  /\ IntegratedOut.rows[1]["margin_vs_sector_avg"] = Num(-746, 100)
  /\ MatchesOf(IntegratedOut.rows[2]) = {}
  /\ IsNull(IntegratedOut.rows[2]["valuation_vs_sector_avg"])
  /\ IsNull(IntegratedOut.rows[2]["average_margin"])

----
\* C6: duplicate_companies is the sum over the company_name values that
\* occur k > 1 times of k - 1, that is the number of rows minus the number
\* of distinct values; for the names A, A, B, A it is 2.
NameAt(i) == IntegratedOut.rows[i]["company_name"]

Occurrences(v) == Cardinality({i \in 1..NRows(IntegratedOut) : NameAt(i) = v})

\* k - 1 at the first row of each name, 0 at its other rows.
ExtraOccurrences(i) ==
  IF \E j \in 1..(i - 1) : NameAt(j) = NameAt(i) THEN 0
  ELSE Occurrences(NameAt(i)) - 1

C6_DuplicateCompanies ==
  (pc = "api" /\ validation_results # <<>>) =>
    LET n == NRows(IntegratedOut)
    IN  /\ Report.duplicate_companies =
             SumTo([i \in 1..n |-> ExtraOccurrences(i)], n)
        /\ Report.duplicate_companies =
             n - Cardinality({NameAt(i) : i \in 1..n})
        /\ ( /\ n = 4
             /\ NameAt(1) = Str("Company_A") /\ NameAt(2) = Str("Company_A")
             /\ NameAt(3) = Str("Company_B") /\ NameAt(4) = Str("Company_A") )
             => Report.duplicate_companies = 2

C6_Witness ==
  /\ pc = "api"
  /\ validation_results # <<>>
  /\ NRows(IntegratedOut) = 4
  /\ NameAt(1) = Str("Company_A") /\ NameAt(2) = Str("Company_A")
  /\ NameAt(3) = Str("Company_B") /\ NameAt(4) = Str("Company_A")
  /\ Report.duplicate_companies = 2

----
\* C7: on a frame with no cells validate_data does not divide by zero: the
\* report's data_quality_score is the sentinel (100.0 or null) and its
\* total_records is 0.
C7_EmptyFrameScore ==
  (pc = "api" /\ validation_results # <<>> /\ total_cells(IntegratedOut) = 0) =>
    /\ warnings = {}
    /\ Report.data_quality_score \in {Num(100, 1), NaN}
    /\ Report.total_records = 0

----
\* C9: data_quality_score is (total_cells - missing_cells) / total_cells
\* times 100 rounded to 2 decimals, total_cells being rows times columns and
\* missing_cells the sum of the per-column counts: with N > 0 cells it is
\* 100.0 when no cell is missing, 0.0 when every cell is, and within 0..100.
MissingIn(c) ==
  Cardinality({i \in 1..NRows(IntegratedOut) : IsNull(IntegratedOut.rows[i][c])})

MissingCells ==
  Cardinality({ic \in (1..NRows(IntegratedOut)) \X Range(IntegratedOut.columns) :
                 IsNull(IntegratedOut.rows[ic[1]][ic[2]])})

C9_QualityScore ==
  (pc = "api" /\ validation_results # <<>> /\ NRows(IntegratedOut) > 0) =>
    LET N     == NRows(IntegratedOut) * Cardinality(Range(IntegratedOut.columns))
        score == Report.data_quality_score
    IN  /\ \A c \in Range(IntegratedOut.columns) :
             Report.missing_values[c] = MissingIn(c)
        /\ Near2(score, (N - MissingCells) * 100, N)
        /\ MissingCells = 0 => score = Num(100, 1)
        /\ MissingCells = N => score = Num(0, 1)
        /\ 0 <= CentsOf(score) /\ CentsOf(score) <= 10000

C9_Witness ==
  /\ pc = "api"
  /\ validation_results # <<>>
  /\ NRows(IntegratedOut) = 3
  /\ MissingCells = 24
  /\ Report.data_quality_score = Num(5556, 100)

----
\* C8 as stated: the stages of run_pipeline happen once each, in order
\* (acquire, normalize both, integrate, validate, persist); the persist step
\* comes after validation and writes both the integrated table and the
\* validation report; the pair computed in the run is returned.
StageOrder ==
  <<"[1/6] Collecting data...", "Saved raw input files",
    "[2/6] Normalizing private market data...",
    "[3/6] Normalizing industry benchmark data...",
    "[4/6] Integrating datasets...", "[5/6] Validating data quality...",
    "[6/6] Saving integrated dataset...", "Pipeline completed successfully!">>

OutputPath == "output/final_integrated_valuation_data.csv"

RawPaths ==
  {"input_data/private_market_data_example.csv",
   "input_data/industry_benchmark_data_example.csv"}

Written(path) == \E f \in files : f.path = path

\* The stages so far are the first ones of the order, each once, and each
\* has what the earlier ones produce.
StagesInOrder ==
  /\ Len(stdout) <= Len(StageOrder)
  /\ stdout = SubSeq(StageOrder, 1, Len(stdout))
  /\ frame.private_normalized # 0 => frame.private_data_raw # 0
  /\ frame.benchmark_normalized # 0 => frame.benchmark_data_raw # 0
  /\ frame.integrated_data # 0 =>
       (frame.private_normalized # 0 /\ frame.benchmark_normalized # 0)
  /\ validation_results # <<>> => frame.integrated_data # 0
  /\ Written(OutputPath) => validation_results # <<>>

\* What is returned is the integrated frame and the report of this run.
ReturnsThePair ==
  pc = "done" =>
    /\ stdout = StageOrder
    /\ ret = <<[integrated_data |-> frame.integrated_data,
                validation_results |-> Report]>>
    /\ Report.total_records = NRows(IntegratedOut)
    /\ NRows(IntegratedOut) >= NRows(RawIn)
    /\ \E f \in files : f.path = OutputPath /\ f.content = IntegratedOut

\* Some file holds the validation report.
ReportWritten ==
  /\ validation_results # <<>>
  /\ \E f \in files : f.content = Report

C8_StagesAndPersistBoth ==
  /\ StagesInOrder
  /\ ReturnsThePair
  /\ pc = "done" => ReportWritten

\* C8 amended: as above, but the persist step writes the integrated table
\* only; the validation report is returned and never written.
C8_StagesAndPersistTable ==
  /\ StagesInOrder
  /\ ReturnsThePair
  /\ ~ReportWritten
  /\ pc = "done" => {f.path : f \in files} = RawPaths \cup {OutputPath}

C8_Witness ==
  /\ pc = "done"
  /\ Written(OutputPath)
  /\ ret # <<>>
  /\ ret[1].validation_results.total_records = num_companies

----
\* C10: no operation changes the configuration, and the normalizers, the
\* integrator and the validator leave the frames passed to them as they
\* were: every object that exists before a step is the same after it, and
\* what a step returns is a new object.
C10_InputsUnchanged ==
  [][ /\ self' = self
      /\ Len(heap') >= Len(heap)
      /\ \A i \in 1..Len(heap) : heap'[i] = heap[i]
      /\ \A v \in DOMAIN frame : frame'[v] # frame[v] => frame'[v] > Len(heap) ]_vars

C10_Witness ==
  /\ pc = "done"
  /\ self = Config
  /\ RawIn.columns = RawPrivateColumns
  /\ \E f \in files : f.path = "input_data/private_market_data_example.csv"
                      /\ f.content = RawIn
  /\ \E f \in files : f.path = "input_data/industry_benchmark_data_example.csv"
                      /\ f.content = heap[frame.benchmark_data_raw]
  /\ NormalizedOut.columns = final_columns

====
